---- MODULE Spec2Model ----
(***************************************************************************)
(* Model of the doc-sync memory core (docsync/core.py): markdown chunking, *)
(* tag inference, the dedup insert into chunk_meta + chunks_fts, document  *)
(* ingestion and the connection factory.                                   *)
(*                                                                         *)
(* Text is modelled as sequences of one-character strings, so that         *)
(* startswith, lstrip, strip, split, join, len and substring tests are     *)
(* computed as Python computes them.                                       *)
(***************************************************************************)
EXTENDS Integers, Sequences, FiniteSets, TLC

\* ------------------------------------------------------------------ bounds

\* Calls and file writes per behaviour.
MaxOps == 3

\* Lines per document in the chunker specification.
MaxLines == 3

\* Processes calling get_connection in the connection specification.
MaxCallers == 3

\* ------------------------------------------------------------- text helpers

NL == "\n"

IsSpace(c) == c \in {" ", "\n", "\t"}

Min(a, b) == IF a < b THEN a ELSE b

\* n copies of character c
Rep(c, n) == [i \in 1..n |-> c]

\* s[:n] for n >= 0
Take(s, n) == SubSeq(s, 1, Min(n, Len(s)))

\* str.strip(): drop leading and trailing whitespace (newlines included)
Strip(s) ==
    IF \A i \in DOMAIN s : IsSpace(s[i]) THEN <<>>
    ELSE LET lo == CHOOSE i \in DOMAIN s :
                      ~IsSpace(s[i]) /\ \A j \in 1..(i - 1) : IsSpace(s[j])
             hi == CHOOSE i \in DOMAIN s :
                      ~IsSpace(s[i]) /\ \A j \in (i + 1)..Len(s) : IsSpace(s[j])
         IN SubSeq(s, lo, hi)

\* line.lstrip("#")
LStripHash(line) ==
    IF \A i \in DOMAIN line : line[i] = "#" THEN <<>>
    ELSE LET lo == CHOOSE i \in DOMAIN line :
                      line[i] # "#" /\ \A j \in 1..(i - 1) : line[j] = "#"
         IN SubSeq(line, lo, Len(line))

\* line.startswith("#")
StartsWithHash(line) == Len(line) > 0 /\ line[1] = "#"

\* sep.join(parts)
RECURSIVE Join(_, _)
Join(parts, sep) ==
    IF parts = <<>> THEN <<>>
    ELSE IF Len(parts) = 1 THEN parts[1]
    ELSE parts[1] \o sep \o Join(Tail(parts), sep)

\* content.split("\n"): always at least one (possibly empty) line
RECURSIVE SplitLines(_)
SplitLines(s) ==
    IF \A i \in DOMAIN s : s[i] # NL THEN <<s>>
    ELSE LET k == CHOOSE i \in DOMAIN s :
                     s[i] = NL /\ \A j \in 1..(i - 1) : s[j] # NL
         IN <<SubSeq(s, 1, k - 1)>> \o SplitLines(SubSeq(s, k + 1, Len(s)))

\* str.lower() on the letters the model uses
LowerChar(c) ==
    CASE c = "A" -> "a" [] c = "B" -> "b" [] c = "C" -> "c" [] c = "E" -> "e"
      [] c = "F" -> "f" [] c = "I" -> "i" [] c = "N" -> "n" [] c = "P" -> "p"
      [] c = "R" -> "r" [] c = "S" -> "s" [] OTHER -> c

LowerMut(s) == s
Lower(s) == [i \in DOMAIN s |-> LowerChar(s[i])]

\* sub in s
Contains(sub, s) ==
    \E i \in 1..(Len(s) - Len(sub) + 1) : SubSeq(s, i, i + Len(sub) - 1) = sub

\* ---------------------------------------------------------------- Hasher

\* hash_content: SHA-256 of the exact text; modelled as an injective digest
\* (collision-resistant), distinct from the text itself.
hash_content(content) == <<"sha256", content>>

\* ---------------------------------------------------------------- Chunker

MinChunkLen == 50

SectionSep == <<" ", ">", " ">>
Introduction == <<"I", "n", "t", "r", "o", "d", "u", "c", "t", "i", "o", "n">>
ContentLabel == <<"C", "o", "n", "t", "e", "n", "t">>

\* level = len(line) - len(line.lstrip("#"))
HeadingLevel(line) == Len(line) - Len(LStripHash(line))

\* heading_text = line.lstrip("#").strip()
HeadingText(line) == Strip(LStripHash(line))

\* State of the chunk_document loop before the first line.  `levels` is an
\* auxiliary stack kept in step with current_headings: the level of the
\* heading line each stack entry came from.
ChunkInit ==
    [chunks |-> <<>>, current_section |-> <<>>, current_headings |-> <<>>,
     levels |-> <<>>]

\* The length/emptiness test both flushes apply to the stripped section.
EmitsMut(section_content) == section_content # <<>>
Emits(section_content) ==
    section_content # <<>> /\ Len(section_content) > MinChunkLen

\* " > ".join(current_headings) if current_headings else <fallback>
SectionLabelMut(current_headings, fallback) ==
    Join(current_headings, SectionSep)
SectionLabel(current_headings, fallback) ==
    IF current_headings # <<>> THEN Join(current_headings, SectionSep)
    ELSE fallback

\* "Save previous section if it has content" / "Don't forget the last section":
\* the chunks list after flushing current_section under the given fallback label.
Flush(st, source, fallback) ==
    IF st.current_section = <<>> THEN st.chunks
    ELSE LET section_content == Strip(Join(st.current_section, <<NL>>))
         IN IF Emits(section_content)
            THEN Append(st.chunks,
                        [content |-> section_content,
                         section |-> SectionLabel(st.current_headings, fallback),
                         source  |-> source])
            ELSE st.chunks

\* "Trim heading stack to current level", then append
TrimPushMut(stack, level, x) == Append(Take(stack, level), x)
TrimPush(stack, level, x) == Append(Take(stack, level - 1), x)

\* One iteration of `for line in lines`
ChunkLine(st, line, source) ==
    IF StartsWithHash(line)
    THEN [chunks           |-> Flush(st, source, Introduction),
          current_section  |-> <<line>>,
          current_headings |-> TrimPush(st.current_headings, HeadingLevel(line),
                                        HeadingText(line)),
          levels           |-> TrimPush(st.levels, HeadingLevel(line),
                                        HeadingLevel(line))]
    ELSE [st EXCEPT !.current_section = Append(@, line)]

RECURSIVE ChunkLoop(_, _, _)
ChunkLoop(st, lines, source) ==
    IF lines = <<>> THEN st
    ELSE ChunkLoop(ChunkLine(st, Head(lines), source), Tail(lines), source)

\* chunk_document(content, source)
chunk_document(content, source) ==
    Flush(ChunkLoop(ChunkInit, SplitLines(content), source), source, ContentLabel)

\* ----------------------------------------------------------------- Tagger

TAG_HINTS ==
    << <<"i", "n", "f", "r", "a">>,
       <<"a", "g", "e", "n", "t", "s">>,
       <<"a", "p", "p", "s">>,
       <<"s", "h", "a", "r", "e", "d">>,
       <<"p", "i", "p", "e", "l", "i", "n", "e", "s">>,
       <<"e", "c", "s">>,
       <<"l", "a", "m", "b", "d", "a">> >>

General == <<"g", "e", "n", "e", "r", "a", "l">>

RECURSIVE MatchHints(_, _)
MatchHints(hints, path_lower) ==
    IF hints = <<>> THEN <<>>
    ELSE (IF Contains(Head(hints), path_lower) THEN <<Head(hints)>> ELSE <<>>)
         \o MatchHints(Tail(hints), path_lower)

\* infer_tags(path)
infer_tags(path) ==
    LET tags == MatchHints(TAG_HINTS, Lower(path))
    IN IF tags # <<>> THEN tags ELSE <<General>>

\* ------------------------------------------------------------ model inputs

\* Document paths (root-relative)
PathInfra == <<"e", "c", "s", "/", "i", "n", "f", "r", "a">>
Paths == {PathInfra}

LineA == <<"#", " ", "A">>
LineB == <<"#", "#", " ", "B">>
ProseX == Rep("x", 55)
ProseY == Rep("y", 55)
ProseZ == Rep("z", 55)

DocShort == Join(<<LineA, Rep("x", 10)>>, <<NL>>)
DocTwo == Join(<<LineA, ProseX, LineB, ProseY>>, <<NL>>)
DocTwoZ == Join(<<LineA, ProseX, LineB, ProseZ>>, <<NL>>)
DocDup == Join(<<LineA, ProseY, LineA, ProseY>>, <<NL>>)
Docs == {DocShort, DocTwo, DocTwoZ, DocDup}

\* A path with no file behind it, and a file holding text
NoFile == [exists |-> FALSE, text |-> <<>>]
File(text) == [exists |-> TRUE, text |-> text]

FileStates == {NoFile} \cup {File(d) : d \in Docs}

\* Explicit tags arguments: <<>> stands for None and for the empty list.
TagK == <<"k">>
TagArgs == {<<>>, <<TagK>>}

\* Contents handed to insert_chunk directly (the `add` operation): a short
\* synthetic entry (40 characters) and one equal to the second chunk of DocTwoZ.
TaskSource == <<"t", "a", "s", "k">>
DirectContents == {Rep("t", 40), Join(<<LineB, ProseZ>>, <<NL>>)}

\* Connections (one per process)
Conns == {1, 2}

\* ------------------------------------------------------------------ state

VARIABLES
    files,        \* filesystem under docs_root: path -> text or NoFile
    uniqueIndex,  \* whether chunk_meta.content_hash carries a unique index
    committed,    \* the database as other connections and restarts see it
    pend,         \* per connection: rows of its open (uncommitted) transaction
    pc,           \* per connection: position inside insert_chunk / the process
    frame,        \* per connection: the running call (arguments, loop state)
    result,       \* per connection: outcome of the last finished call
    ops,          \* calls and file writes started so far
    clock,        \* datetime.now(), as a logical clock
    acked,        \* per connection: hashes insert_chunk returned True for
    hist,         \* per connection: ingest_document runs finished in succession
    dbFile,       \* backing file of the store: missing / empty / initialized
    gc,           \* per caller of get_connection: position and outcome
    ck,           \* the chunk_document loop, line by line
    tg,           \* one infer_tags call: its path and its result
    tk            \* one taskctl command: its arguments, position and effects

vars == <<files, uniqueIndex, committed, pend, pc, frame, result, ops, clock,
          acked, hist, dbFile, gc, ck, tg, tk>>

\* The variables the store operations leave alone
others == <<dbFile, gc, ck, tg, tk>>

storeVars == <<files, uniqueIndex, committed, pend, pc, frame, result, ops,
               clock, acked, hist>>

EmptyTables == [meta |-> {}, fts |-> {}]
NoTx == [tx |-> FALSE, meta |-> {}, fts |-> {}]
NoFrame ==
    [op |-> "none", path |-> <<>>, file |-> NoFile, todo |-> <<>>,
     inserted |-> 0, before |-> {}, rowid |-> 0]
NoResult ==
    [op |-> "none", path |-> <<>>, file |-> NoFile, ret |-> 0, ok |-> FALSE,
     exc |-> "none", during |-> "none"]

\* What connection p reads: committed rows plus its own uncommitted ones.
View(p) ==
    [meta |-> committed.meta \cup pend[p].meta,
     fts  |-> committed.fts \cup pend[p].fts]

Hashes(meta) == {r.content_hash : r \in meta}
Ids(meta) == {r.id : r \in meta}
RowIds(fts) == {r.rowid : r \in fts}

SetMax(S) == CHOOSE x \in S : \A y \in S : y <= x

\* cursor.lastrowid of the chunk_meta INSERT: the store-assigned identity
NextIdMut(meta) == 1
NextId(meta) == IF meta = {} THEN 1 ELSE SetMax(Ids(meta)) + 1

\* "SELECT id FROM chunk_meta WHERE content_hash = ?" ... fetchone()
ExistingMut(meta, content_hash) == FALSE
Existing(meta, content_hash) == \E r \in meta : r.content_hash = content_hash

\* full_path.exists()
ExistsMut(fs, path) == TRUE
Exists(fs, path) == fs[path].exists

\* The unique index on chunk_meta.content_hash, where the schema has it,
\* rejects a second row with a stored hash.
RejectedByIndex(meta, content_hash) == uniqueIndex /\ content_hash \in Hashes(meta)

\* Another connection holds the database write lock (an open transaction).
LockedByOther(p) == \E q \in Conns \ {p} : pend[q].tx

StoreInit ==
    /\ committed = EmptyTables
    /\ pend = [p \in Conns |-> NoTx]
    /\ pc = [p \in Conns |-> "idle"]
    /\ frame = [p \in Conns |-> NoFrame]
    /\ result = [p \in Conns |-> NoResult]
    /\ ops = 0
    /\ clock = 0
    /\ acked = [p \in Conns |-> {}]
    /\ hist = [p \in Conns |-> <<>>]

\* --------------------------------------------------------- call bookkeeping

\* The arguments ingest_document passes to insert_chunk for one chunk
ChunkArgs(chunk, tags) ==
    [content    |-> chunk.content,
     source     |-> chunk.source,
     section    |-> chunk.section,
     tags_csv   |-> Join(tags, <<",">>),
     tags_str   |-> Join(tags, <<" ">>),
     chunk_type |-> "doc"]

AllArgsMut(chunks, tags) ==
    [i \in 1..Len(chunks) |-> ChunkArgs(chunks[Len(chunks) + 1 - i], tags)]

RECURSIVE AllArgs(_, _)
AllArgs(chunks, tags) ==
    IF chunks = <<>> THEN <<>>
    ELSE <<ChunkArgs(Head(chunks), tags)>> \o AllArgs(Tail(chunks), tags)

\* The last two ingest_document runs a connection finished back to back
Remember(h, e) == IF Len(h) = 2 THEN <<h[2], e>> ELSE Append(h, e)

\* The running call of p returns normally.  ingest_document returns its
\* count; a direct insert_chunk call returns its boolean.
Return(p, f, ret, ok) ==
    /\ pc' = [pc EXCEPT ![p] = "idle"]
    /\ frame' = [frame EXCEPT ![p] = NoFrame]
    /\ result' = [result EXCEPT ![p] =
            [op |-> f.op, path |-> f.path, file |-> f.file, ret |-> ret,
             ok |-> ok, exc |-> "none", during |-> "none"]]
    /\ hist' = [hist EXCEPT ![p] =
            IF f.op = "ingest"
            THEN Remember(@, [path |-> f.path, file |-> f.file, ret |-> ret,
                              before |-> f.before])
            ELSE <<>>]

\* The running call of p is left by an exception: nothing is rolled back,
\* the connection keeps whatever transaction it has open.
Raise(p, exc) ==
    /\ pc' = [pc EXCEPT ![p] = "idle"]
    /\ frame' = [frame EXCEPT ![p] = NoFrame]
    /\ result' = [result EXCEPT ![p] =
            [op |-> frame[p].op, path |-> frame[p].path, file |-> frame[p].file,
             ret |-> 0, ok |-> FALSE, exc |-> exc, during |-> frame[p].op]]
    /\ hist' = [hist EXCEPT ![p] = <<>>]

\* if insert_chunk(...): inserted += 1
CountMut(inserted, insertedNow) == inserted + 1
Count(inserted, insertedNow) == IF insertedNow THEN inserted + 1 ELSE inserted

\* insert_chunk has returned `insertedNow` for the chunk at the head of todo:
\* ingest_document counts it and goes on to the next chunk, or returns.
ChunkDone(p, insertedNow) ==
    LET f == frame[p]
        n == Count(f.inserted, insertedNow)
    IN IF Len(f.todo) > 1
       THEN /\ frame' = [frame EXCEPT ![p] =
                    [f EXCEPT !.todo = Tail(f.todo), !.inserted = n, !.rowid = 0]]
            /\ pc' = [pc EXCEPT ![p] = "lookup"]
            /\ UNCHANGED <<result, hist>>
       ELSE Return(p, f, n, insertedNow)

\* ------------------------------------------------------------ ingest_document

\* ingest_document(conn, path, tags=tags): up to the first insert_chunk call
IngestBegin(p, path, tags) ==
    /\ pc[p] = "idle"
    /\ ops < MaxOps
    /\ ops' = ops + 1
    /\ acked' = [acked EXCEPT ![p] = {}]
    /\ LET f0 == [NoFrame EXCEPT !.op = "ingest", !.path = path,
                                 !.before = Hashes(View(p).meta)]
       IN IF ~Exists(files, path)
          THEN Return(p, f0, 0, FALSE)
          ELSE IF ~files[path].exists
          THEN \* read_text() on a missing file
               /\ pc' = [pc EXCEPT ![p] = "idle"]
               /\ frame' = [frame EXCEPT ![p] = NoFrame]
               /\ result' = [result EXCEPT ![p] =
                       [NoResult EXCEPT !.op = "ingest", !.path = path,
                                        !.exc = "FileNotFoundError",
                                        !.during = "ingest"]]
               /\ hist' = [hist EXCEPT ![p] = <<>>]
          ELSE LET chunks == chunk_document(files[path].text, path)
                   f1 == [f0 EXCEPT !.file = files[path]]
               IN IF chunks = <<>>
                  THEN Return(p, f1, 0, FALSE)
                  ELSE /\ frame' = [frame EXCEPT ![p] =
                               [f1 EXCEPT !.todo =
                                   AllArgs(chunks, IF tags = <<>>
                                                   THEN infer_tags(path)
                                                   ELSE tags)]]
                       /\ pc' = [pc EXCEPT ![p] = "lookup"]
                       /\ UNCHANGED <<result, hist>>
    /\ UNCHANGED <<files, uniqueIndex, committed, pend, clock>>
    /\ UNCHANGED others

\* ---------------------------------------------------------------- insert_chunk

\* A direct call insert_chunk(conn, content, source, section, ...), as made
\* by the `add` operation for synthetic entries.
InsertBegin(p, content) ==
    /\ pc[p] = "idle"
    /\ ops < MaxOps
    /\ ops' = ops + 1
    /\ acked' = [acked EXCEPT ![p] = {}]
    /\ frame' = [frame EXCEPT ![p] =
            [NoFrame EXCEPT !.op = "insert", !.path = TaskSource,
                            !.before = Hashes(View(p).meta),
                            !.todo = << [content    |-> content,
                                         source     |-> TaskSource,
                                         section    |-> <<>>,
                                         tags_csv   |-> TaskSource,
                                         tags_str   |-> TaskSource,
                                         chunk_type |-> "session"] >>]]
    /\ pc' = [pc EXCEPT ![p] = "lookup"]
    /\ UNCHANGED <<files, uniqueIndex, committed, pend, result, clock, hist>>
    /\ UNCHANGED others

\* content_hash = hash_content(content); existing = SELECT ...; if existing:
\* return False
Lookup(p) ==
    /\ pc[p] = "lookup"
    /\ LET a == Head(frame[p].todo)
       IN IF Existing(View(p).meta, hash_content(a.content))
          THEN ChunkDone(p, FALSE)
          ELSE /\ pc' = [pc EXCEPT ![p] = "meta"]
               /\ UNCHANGED <<frame, result, hist>>
    /\ UNCHANGED <<files, uniqueIndex, committed, pend, ops, clock, acked>>
    /\ UNCHANGED others

\* now = datetime.now(); INSERT INTO chunk_meta ...   The statement opens the
\* connection's transaction.  It raises when another connection holds the
\* write lock past the busy timeout, and when the unique index rejects the hash.
InsertMeta(p) ==
    /\ pc[p] = "meta"
    /\ LET a == Head(frame[p].todo)
           h == hash_content(a.content)
           id == NextId(View(p).meta)
       IN IF LockedByOther(p)
          THEN Raise(p, "OperationalError") /\ UNCHANGED <<pend, clock>>
          ELSE IF RejectedByIndex(View(p).meta, h)
          THEN Raise(p, "IntegrityError") /\ UNCHANGED <<pend, clock>>
          ELSE /\ pend' = [pend EXCEPT ![p] =
                       [tx |-> TRUE,
                        meta |-> @.meta \cup
                            {[id |-> id, source |-> a.source,
                              section |-> a.section, tags |-> a.tags_csv,
                              chunk_type |-> a.chunk_type,
                              created_at |-> clock + 1, content_hash |-> h]},
                        fts |-> @.fts]]
               /\ clock' = clock + 1
               /\ frame' = [frame EXCEPT ![p].rowid = id]
               /\ pc' = [pc EXCEPT ![p] = "fts"]
               /\ UNCHANGED <<result, hist>>
    /\ UNCHANGED <<files, uniqueIndex, committed, ops, acked>>
    /\ UNCHANGED others

\* INSERT INTO chunks_fts (rowid, ...) VALUES (cursor.lastrowid, ...);
\* return True
InsertFts(p) ==
    /\ pc[p] = "fts"
    /\ LET a == Head(frame[p].todo)
       IN /\ pend' = [pend EXCEPT ![p].fts = @ \cup
                  {[rowid |-> frame[p].rowid, content |-> a.content,
                    source |-> a.source, section |-> a.section,
                    tags |-> a.tags_str]}]
          /\ acked' = [acked EXCEPT ![p] = @ \cup {hash_content(a.content)}]
    /\ ChunkDone(p, TRUE)
    /\ UNCHANGED <<files, uniqueIndex, committed, ops, clock>>
    /\ UNCHANGED others

\* The chunks_fts INSERT raises (disk full, I/O error, interrupt) after the
\* chunk_meta INSERT ran: insert_chunk has no handler, the exception leaves it.
InsertFtsFails(p) ==
    /\ pc[p] = "fts"
    /\ Raise(p, "OperationalError")
    /\ UNCHANGED <<files, uniqueIndex, committed, pend, ops, clock, acked>>
    /\ UNCHANGED others

\* ------------------------------------------------------ callers, environment

\* The caller commits the connection between calls.
Commit(p) ==
    /\ pc[p] = "idle"
    /\ pend[p].tx
    /\ committed' = [meta |-> committed.meta \cup pend[p].meta,
                     fts  |-> committed.fts \cup pend[p].fts]
    /\ pend' = [pend EXCEPT ![p] = NoTx]
    /\ UNCHANGED <<files, uniqueIndex, pc, frame, result, ops, clock, acked, hist>>
    /\ UNCHANGED others

\* The process dies (or its connection is closed) with work in flight: the
\* open transaction is rolled back.  The process is then started again with
\* a new connection, idle.
Crash(p) ==
    /\ pc[p] # "idle" \/ pend[p].tx
    /\ pend' = [pend EXCEPT ![p] = NoTx]
    /\ pc' = [pc EXCEPT ![p] = "idle"]
    /\ frame' = [frame EXCEPT ![p] = NoFrame]
    /\ result' = [result EXCEPT ![p] =
            [NoResult EXCEPT !.op = "crash", !.path = frame[p].path,
                             !.during = frame[p].op]]
    /\ hist' = [hist EXCEPT ![p] = <<>>]
    /\ UNCHANGED <<files, uniqueIndex, committed, ops, clock, acked>>
    /\ UNCHANGED others

\* A document is written, rewritten or deleted under docs_root.
WriteFile(path, file) ==
    /\ ops < MaxOps
    /\ ops' = ops + 1
    /\ files[path] # file
    /\ files' = [files EXCEPT ![path] = file]
    /\ UNCHANGED <<uniqueIndex, committed, pend, pc, frame, result, clock,
                   acked, hist>>
    /\ UNCHANGED others

Step(p) ==
    \/ \E path \in Paths, tags \in TagArgs : IngestBegin(p, path, tags)
    \/ \E content \in DirectContents : InsertBegin(p, content)
    \/ Lookup(p)
    \/ InsertMeta(p)
    \/ InsertFts(p)
    \/ InsertFtsFails(p)
    \/ Commit(p)
    \/ Crash(p)

Env == \E path \in Paths, file \in FileStates : WriteFile(path, file)

\* The store, untouched (specifications of the chunker and of get_connection)
StoreIdle ==
    /\ StoreInit
    /\ files = [path \in Paths |-> NoFile]
    /\ uniqueIndex = TRUE

\* No infer_tags call and no taskctl command under way
AuxIdle == tg = <<>> /\ tk = <<>>

\* One process, one connection.  The schema is created by the init step,
\* outside this core: both schemas, with and without the unique index on
\* content_hash, are covered.
Init ==
    /\ StoreInit
    /\ files \in [Paths -> FileStates]
    /\ uniqueIndex \in BOOLEAN
    /\ dbFile = "initialized"
    /\ gc = <<>>
    /\ ck = <<>>
    /\ AuxIdle

Next == Step(1) \/ Env

Spec == Init /\ [][Next]_vars

\* Two processes, each with its own connection.
NextConc == (\E p \in Conns : Step(p)) \/ Env

SpecConc == Init /\ [][NextConc]_vars

\* ------------------------------------------------- chunk_document, by line

LineC == <<"#", "#", "#", " ", "C">>
LineSpHash == <<" ", "#", " ", "n">>
ChunkLines ==
    {LineA, LineB, LineC, <<"#">>, LineSpHash, ProseX, Rep("w", 50),
     Rep("y", 10), <<>>}

ChunkDocs ==
    UNION {{Join(ls, <<NL>>) : ls \in [1..n -> ChunkLines]} : n \in 1..MaxLines}

\* The loop state for one chunk_document(content, source) call; `all` keeps
\* the lines of the document for reference.
ChunkCall(content) ==
    [all |-> SplitLines(content), lines |-> SplitLines(content),
     line |-> <<>>, pos |-> 0, st |-> ChunkInit, done |-> FALSE,
     chunks |-> <<>>]

InitChunk ==
    /\ StoreIdle
    /\ AuxIdle
    /\ dbFile = "initialized"
    /\ gc = <<>>
    /\ \E content \in ChunkDocs : ck = ChunkCall(content)

\* for line in lines: ...
ChunkNextLine ==
    /\ ~ck.done
    /\ ck.lines # <<>>
    /\ ck' = [ck EXCEPT !.lines = Tail(@), !.line = Head(ck.lines),
                        !.pos = @ + 1,
                        !.st = ChunkLine(ck.st, Head(ck.lines), PathInfra)]
    /\ UNCHANGED <<storeVars, dbFile, gc, tg, tk>>

\* "Don't forget the last section"; return chunks
ChunkReturn ==
    /\ ~ck.done
    /\ ck.lines = <<>>
    /\ ck' = [ck EXCEPT !.done = TRUE,
                        !.chunks = Flush(ck.st, PathInfra, ContentLabel)]
    /\ UNCHANGED <<storeVars, dbFile, gc, tg, tk>>

NextChunk == ChunkNextLine \/ ChunkReturn

SpecChunk == InitChunk /\ [][NextChunk]_vars

\* ------------------------------------------------------------ get_connection

Callers == 1..MaxCallers

InitConn ==
    /\ StoreIdle
    /\ AuxIdle
    /\ ck = <<>>
    /\ dbFile \in {"missing", "initialized"}
    /\ gc = [c \in Callers |->
                [pc |-> "idle", out |-> "none", store |-> "none",
                 created |-> FALSE]]

\* db = db_path or DB_PATH; if not db.exists(): raise RuntimeError(... Run
\* 'doctool index init' first.)
GetConnCheck(c) ==
    /\ gc[c].pc = "idle"
    /\ gc' = [gc EXCEPT ![c] =
            IF dbFile = "missing"
            THEN [pc |-> "idle", out |-> "RuntimeError", store |-> "none",
                  created |-> FALSE]
            ELSE [pc |-> "checked", out |-> "none", store |-> "none",
                  created |-> FALSE]]
    /\ UNCHANGED <<storeVars, dbFile, ck, tg, tk>>

\* conn = sqlite3.connect(db); ...; return conn.  sqlite3.connect opens the
\* file read-write-create: a missing file is created, empty.
GetConnOpen(c) ==
    /\ gc[c].pc = "checked"
    /\ dbFile' = IF dbFile = "missing" THEN "empty" ELSE dbFile
    /\ gc' = [gc EXCEPT ![c] =
            [pc |-> "idle", out |-> "handle", store |-> dbFile',
             created |-> (dbFile = "missing")]]
    /\ UNCHANGED <<storeVars, ck, tg, tk>>

\* Another process runs the init step: the file exists with its schema.
StoreInitialized ==
    /\ dbFile # "initialized"
    /\ dbFile' = "initialized"
    /\ UNCHANGED <<storeVars, gc, ck, tg, tk>>

\* Another process deletes the backing file.
StoreDeleted ==
    /\ dbFile # "missing"
    /\ dbFile' = "missing"
    /\ UNCHANGED <<storeVars, gc, ck, tg, tk>>

NextConn ==
    \/ \E c \in Callers : GetConnCheck(c) \/ GetConnOpen(c)
    \/ StoreInitialized
    \/ StoreDeleted

SpecConn == InitConn /\ [][NextConn]_vars

\* ==================================================================== claims

Range(seq) == {seq[i] : i \in DOMAIN seq}

\* The chunk candidates of a file as ingest_document would read it
ChunksOf(file, path) ==
    IF file.exists THEN chunk_document(file.text, path) ELSE <<>>

\* C1: through one connection, starting from an empty store, no two
\* chunk_meta rows carry the same content_hash, after any sequence of
\* insert_chunk and ingest_document calls.
C1_UniqueHash ==
    \A r1, r2 \in View(1).meta : r1.content_hash = r2.content_hash => r1 = r2

\* C1 witness: an ingest_document run met a chunk whose hash was already
\* stored (it returned fewer than its chunk count) and rows are stored.
C1_Witness ==
    /\ result[1].op = "ingest"
    /\ result[1].exc = "none"
    /\ result[1].ret < Len(ChunksOf(result[1].file, result[1].path))
    /\ View(1).meta # {}

\* C2: two ingestors on their own connections: the store never holds two
\* rows with one content_hash, and the lookup and the insert are one atomic
\* unit: no ingestor that observed "not present" is about to run its
\* chunk_meta INSERT for a hash that is by now present in the database.
C2_AtomicCheckAndInsert ==
    /\ \A r1, r2 \in committed.meta : r1.content_hash = r2.content_hash => r1 = r2
    /\ \A p \in Conns :
          pc[p] = "meta" =>
             hash_content(Head(frame[p].todo).content) \notin
                 Hashes(committed.meta \cup UNION {pend[q].meta : q \in Conns})

\* C3: the two-table write is atomic: what other connections and a restart
\* see, and what a connection sees once an insert_chunk call has ended
\* (returned or failed), has the same ids in chunk_meta as rowids in
\* chunks_fts.
C3_TwoTableAtomic ==
    /\ Ids(committed.meta) = RowIds(committed.fts)
    /\ \A p \in Conns :
          pc[p] \in {"idle", "lookup"} =>
             Ids(View(p).meta) = RowIds(View(p).fts)

\* C4: when the process crashes during an ingest_document run, the chunks
\* whose insert_chunk call had returned True are in the store after restart.
C4_DurablePerChunk ==
    \A p \in Conns :
       (result[p].op = "crash" /\ result[p].during = "ingest")
          => acked[p] \subseteq Hashes(committed.meta)

\* Number of chunks of the second version whose content is not a chunk
\* content of the first version
ChangedChunks(first, second) ==
    LET old == {c.content : c \in Range(ChunksOf(first.file, first.path))}
        new == ChunksOf(second.file, second.path)
    IN Cardinality({i \in DOMAIN new : new[i].content \notin old})

\* Two ingest_document runs on one path, one right after the other
Successive(p) == Len(hist[p]) = 2 /\ hist[p][1].path = hist[p][2].path

\* C5 (as claimed): of two successive runs on D the first count is >= the
\* second, and the second equals the number of chunks of D whose content
\* changed between the runs.
C5_Original ==
    Successive(1) =>
       /\ hist[1][1].ret >= hist[1][2].ret
       /\ hist[1][2].ret = ChangedChunks(hist[1][1], hist[1][2])

\* C5 (amended): the second count equals the number of distinct chunk
\* contents of D, as the second run reads it, whose hash was not in the
\* store after the first run; when D is unchanged between the runs the
\* second count is 0 and the first is >= the second.
C5_Amended ==
    Successive(1) =>
       LET first == hist[1][1]
           second == hist[1][2]
           new == {hash_content(c.content) :
                      c \in Range(ChunksOf(second.file, second.path))}
       IN /\ second.ret = Cardinality(new \ second.before)
          /\ first.file = second.file =>
                (second.ret = 0 /\ first.ret >= second.ret)

\* C5 witness: D changed between two successive runs, both inserted chunks.
C5_Witness ==
    /\ Successive(1)
    /\ hist[1][1].file # hist[1][2].file
    /\ hist[1][1].ret > 0
    /\ hist[1][2].ret > 0

\* C6: every persisted chunk has content of at least 50 characters after
\* stripping.
C6_MinLength ==
    \A p \in Conns :
       \A r \in View(p).fts : Len(Strip(r.content)) >= MinChunkLen

\* C7: after chunk_document processes a heading of level N the heading
\* stack ends with that heading and holds no earlier heading of level >= N,
\* so the levels of the stacked headings increase strictly.
C7_StackLevels ==
    (ck.pos > 0 /\ StartsWithHash(ck.line)) =>
       LET lv == ck.st.levels
           hs == ck.st.current_headings
           N == HeadingLevel(ck.line)
       IN /\ hs # <<>>
          /\ hs[Len(hs)] = HeadingText(ck.line)
          /\ \A i \in 1..(Len(lv) - 1) : lv[i] < N
          /\ \A i \in 1..(Len(lv) - 1) : lv[i] < lv[i + 1]

\* C8: with the unique index on content_hash, a call is never left by the
\* index rejecting a hash that is already stored: duplicates are reported
\* by the return value.
C8_DuplicateNeverRaises ==
    uniqueIndex => \A p \in Conns : result[p].exc # "IntegrityError"

\* C9: ingest_document on a path with no file behind it, or whose text
\* yields no chunk, returns 0 without raising and leaves both tables as
\* they were.
C9_MissingOrEmptyIsNoOp ==
    [][\A path \in Paths, tags \in TagArgs :
          (/\ IngestBegin(1, path, tags)
           /\ ChunksOf(files[path], path) = <<>>)
          => /\ pc'[1] = "idle"
             /\ result'[1].op = "ingest"
             /\ result'[1].ret = 0
             /\ result'[1].exc = "none"
             /\ committed' = committed
             /\ pend' = pend]_vars

\* C9 witness: a run on a missing file returned 0 with rows in the store.
C9_Witness ==
    /\ result[1].op = "ingest"
    /\ ~result[1].file.exists
    /\ result[1].ret = 0
    /\ result[1].exc = "none"
    /\ View(1).meta # {}

\* C10: get_connection returns a handle only to an initialized store and
\* never creates the backing file.
C10_NeverCreates ==
    \A c \in Callers :
       gc[c].out = "handle" => (gc[c].store = "initialized" /\ ~gc[c].created)

\* ------------------------------------------------- explicit and inferred tags

\* A path no vocabulary hint occurs in, next to one with two hints
PathPlain == <<"n", ".", "m", "d">>
TagPaths == {PathInfra, PathPlain}

\* tags arguments of ingest_document: None / [] (both <<>>), ["k"], [""],
\* ["k", ""]
EmptyTag == <<>>
TagLists == {<<>>, <<TagK>>, <<EmptyTag>>, <<TagK, EmptyTag>>}

\* One connection ingesting documents under every tags argument
InitTags ==
    /\ StoreInit
    /\ files \in [TagPaths -> {File(DocTwo), File(DocTwoZ)}]
    /\ uniqueIndex = TRUE
    /\ dbFile = "initialized"
    /\ gc = <<>>
    /\ ck = <<>>
    /\ AuxIdle

NextTags ==
    \/ \E path \in TagPaths, tags \in TagLists : IngestBegin(1, path, tags)
    \/ Lookup(1)
    \/ InsertMeta(1)
    \/ InsertFts(1)
    \/ Commit(1)

SpecTags == InitTags /\ [][NextTags]_vars

\* s.split(sep) for a one-character separator
RECURSIVE SplitOn(_, _)
SplitOn(s, sep) ==
    IF \A i \in 1..Len(s) : s[i] # sep THEN <<s>>
    ELSE LET i == CHOOSE k \in 1..Len(s) :
                      s[k] = sep /\ \A j \in 1..(k - 1) : s[j] # sep
         IN <<SubSeq(s, 1, i - 1)>> \o SplitOn(SubSeq(s, i + 1, Len(s)), sep)

\* C11: every chunk persisted by ingest_document has a non-empty tag set,
\* whatever the path and the explicit tags argument (absent, empty list, or a
\* list holding empty strings): the comma-joined string of its chunk_meta row
\* and the whitespace-joined string of its chunks_fts row are both non-empty
\* and encode the same tag sequence.
C11_TagsNeverEmpty ==
    \A r \in View(1).meta :
        r.chunk_type = "doc" =>
            /\ r.tags # <<>>
            /\ \A x \in View(1).fts :
                   x.rowid = r.id =>
                       /\ x.tags # <<>>
                       /\ SplitOn(x.tags, " ") = SplitOn(r.tags, ",")

\* ------------------------------------------------------------ infer_tags alone

\* Paths are built from these pieces: two hints, a piece that forms the hint
\* "ecs" only together with its neighbour ("sp" + "ecs" reads "specs"), an
\* upper-case hint, a plain letter and the separator.
MaxTokens == 3

TagTokens ==
    { <<"i", "n", "f", "r", "a">>, <<"e", "c", "s">>, <<"s", "p">>,
      <<"A", "P", "P", "S">>, <<"n">>, <<"/">> }

RECURSIVE TokenPaths(_)
TokenPaths(n) ==
    IF n = 0 THEN {<<>>}
    ELSE TokenPaths(n - 1)
         \cup {p \o t : p \in TokenPaths(n - 1), t \in TagTokens}

InitTagger ==
    /\ StoreIdle
    /\ dbFile = "initialized"
    /\ gc = <<>>
    /\ ck = <<>>
    /\ tk = <<>>
    /\ \E path \in TokenPaths(MaxTokens) :
          tg = [path |-> path, out |-> <<>>, done |-> FALSE]

\* tags = infer_tags(path)
InferTags ==
    /\ ~tg.done
    /\ tg' = [tg EXCEPT !.out = infer_tags(tg.path), !.done = TRUE]
    /\ UNCHANGED <<storeVars, dbFile, gc, ck, tk>>

SpecTagger == InitTagger /\ [][InferTags]_vars

\* An upper-case letter and its lower-case form
CasePairs ==
    { <<"A", "a">>, <<"B", "b">>, <<"C", "c">>, <<"E", "e">>, <<"F", "f">>,
      <<"I", "i">>, <<"N", "n">>, <<"P", "p">>, <<"R", "r">>, <<"S", "s">> }

\* The (lower-case) hint occurs in the path, letter case of the path ignored
Occurs(hint, path) ==
    \E i \in 1..(Len(path) - Len(hint) + 1) :
        \A j \in 1..Len(hint) :
            \/ path[i + j - 1] = hint[j]
            \/ <<path[i + j - 1], hint[j]>> \in CasePairs

\* Position of a tag in the vocabulary (0 when it is not a hint)
HintIndex(tag) ==
    IF \E k \in 1..Len(TAG_HINTS) : TAG_HINTS[k] = tag
    THEN CHOOSE k \in 1..Len(TAG_HINTS) : TAG_HINTS[k] = tag
    ELSE 0

\* C12: infer_tags returns exactly the vocabulary hints that occur as
\* substrings of the lower-cased path, in vocabulary order and without
\* duplicates; it returns ["general"] exactly when no hint occurs, and it
\* never returns an empty list.
C12_InferTags ==
    (tg # <<>> /\ tg.done) =>
        LET out == tg.out
            matched == {k \in 1..Len(TAG_HINTS) : Occurs(TAG_HINTS[k], tg.path)}
        IN /\ out # <<>>
           /\ (out = <<General>>) <=> (matched = {})
           /\ matched # {} =>
                /\ {HintIndex(out[i]) : i \in 1..Len(out)} = matched
                /\ \A i, j \in 1..Len(out) :
                       i < j => HintIndex(out[i]) < HintIndex(out[j])

\* "ecs/infra" gives ["infra", "ecs"]: vocabulary order, not path order
C12_Witness ==
    /\ tg # <<>>
    /\ tg.done
    /\ tg.path = PathInfra
    /\ tg.out = <<TAG_HINTS[1], TAG_HINTS[6]>>

\* ------------------------------------------------- chunk_document, by document

\* Positions of the heading lines of a document (lines that start with "#")
HeadingIdx(lines) == {i \in 1..Len(lines) : StartsWithHash(lines[i])}

\* Position of the first heading line, 0 when there is none
FirstHeading(lines) ==
    IF HeadingIdx(lines) = {} THEN 0
    ELSE CHOOSE i \in HeadingIdx(lines) : \A j \in HeadingIdx(lines) : i <= j

\* The text in front of the first heading line, stripped
Preamble(lines) ==
    Strip(Join(SubSeq(lines, 1, FirstHeading(lines) - 1), <<NL>>))

\* C13 as stated: every document that begins with prose before its first
\* heading gets a first chunk labeled "Introduction".
C13_Original ==
    (ck.done /\ FirstHeading(ck.all) > 1 /\ Preamble(ck.all) # <<>>) =>
        /\ ck.chunks # <<>>
        /\ ck.chunks[1].section = Introduction

\* C13, amended: when the text before the first heading line is, stripped,
\* longer than 50 characters, the first chunk returned is that text labeled
\* "Introduction"; a shorter text before the first heading is dropped, and
\* every chunk returned then begins with a heading line.
C13_Amended ==
    (ck.done /\ FirstHeading(ck.all) > 1) =>
        IF Len(Preamble(ck.all)) > MinChunkLen
        THEN /\ ck.chunks # <<>>
             /\ ck.chunks[1].section = Introduction
             /\ ck.chunks[1].content = Preamble(ck.all)
        ELSE \A i \in 1..Len(ck.chunks) :
                 StartsWithHash(ck.chunks[i].content)

\* A document with 55 characters of prose and then a heading has returned
C13_Witness ==
    /\ ck.done
    /\ FirstHeading(ck.all) > 1
    /\ Len(Preamble(ck.all)) > MinChunkLen
    /\ Len(ck.chunks) >= 1
    /\ ck.chunks[1].section = Introduction

\* C14: a document with no heading line yields at most one chunk: exactly one,
\* labeled "Content" and holding the stripped document, when the document has
\* more than 50 characters of content, and none when it is empty.  The final
\* flush falls back to "Content" only when no heading line was seen: once a
\* heading line was read the heading stack is not empty when the loop ends.
C14_NoHeadingContent ==
    ck.done =>
        LET body == Strip(Join(ck.all, <<NL>>))
        IN /\ HeadingIdx(ck.all) = {} =>
                /\ Len(ck.chunks) <= 1
                /\ Len(body) > MinChunkLen =>
                       ck.chunks = << [content |-> body,
                                       section |-> ContentLabel,
                                       source  |-> PathInfra] >>
                /\ body = <<>> => ck.chunks = <<>>
           /\ HeadingIdx(ck.all) # {} => ck.st.current_headings # <<>>

\* A heading-free document of more than 50 characters has returned its one
\* "Content" chunk
C14_Witness ==
    /\ ck.done
    /\ HeadingIdx(ck.all) = {}
    /\ Len(ck.all) > 1
    /\ Len(ck.chunks) = 1
    /\ ck.chunks[1].section = ContentLabel

\* The sections of a document: one starts at the first line and one at every
\* heading line; each runs up to the line before the next start.
SecStarts(lines) == {1} \cup HeadingIdx(lines)

SecStart(lines, k) ==
    CHOOSE i \in SecStarts(lines) :
        Cardinality({j \in SecStarts(lines) : j <= i}) = k

SecEnd(lines, k) ==
    IF k = Cardinality(SecStarts(lines)) THEN Len(lines)
    ELSE SecStart(lines, k + 1) - 1

\* "\n".join(current_section).strip() of the k-th section
SecText(lines, k) ==
    Strip(Join(SubSeq(lines, SecStart(lines, k), SecEnd(lines, k)), <<NL>>))

SecTexts(lines) ==
    [k \in 1..Cardinality(SecStarts(lines)) |-> SecText(lines, k)]

LongerThanMin(text) == Len(text) > MinChunkLen

\* C15: chunk_document never emits a candidate whose stripped content is
\* shorter than 50 characters, at a heading boundary or at the final flush;
\* it emits every section whose stripped content is longer than 50
\* characters, once and in order; and every emitted content is its own
\* stripped form.
C15_EmitsExactlyLongSections ==
    /\ \A i \in 1..Len(ck.st.chunks) :
           /\ Len(Strip(ck.st.chunks[i].content)) >= MinChunkLen
           /\ Strip(ck.st.chunks[i].content) = ck.st.chunks[i].content
    /\ ck.done =>
           /\ \A i \in 1..Len(ck.chunks) :
                  /\ Len(Strip(ck.chunks[i].content)) >= MinChunkLen
                  /\ Strip(ck.chunks[i].content) = ck.chunks[i].content
           /\ [i \in 1..Len(ck.chunks) |-> ck.chunks[i].content]
                  = SelectSeq(SecTexts(ck.all), LongerThanMin)

\* A document with a long section and a short, non-empty one has returned:
\* one was emitted, the other dropped
C15_Witness ==
    /\ ck.done
    /\ Len(ck.chunks) = 1
    /\ \E k \in 1..Len(SecTexts(ck.all)) :
           /\ SecTexts(ck.all)[k] # <<>>
           /\ Len(SecTexts(ck.all)[k]) <= MinChunkLen

\* The sections of a document that chunk_document emits, by number
LongSecs(lines) ==
    {k \in 1..Cardinality(SecStarts(lines)) : LongerThanMin(SecText(lines, k))}

\* The section the i-th returned chunk was cut from
SecOfChunk(lines, i) ==
    CHOOSE k \in LongSecs(lines) :
        Cardinality({j \in LongSecs(lines) : j <= k}) = i

\* text ends with the given suffix
EndsWith(text, suffix) ==
    /\ Len(suffix) <= Len(text)
    /\ SubSeq(text, Len(text) - Len(suffix) + 1, Len(text)) = suffix

\* The chunk opens with its heading line, and its breadcrumb ends with the
\* stripped text of that line
OpensWithOwnHeading(chunk) ==
    LET first == Head(SplitLines(chunk.content))
    IN /\ StartsWithHash(first)
       /\ EndsWith(chunk.section, HeadingText(first))
       /\ \/ chunk.section = HeadingText(first)
          \/ EndsWith(SubSeq(chunk.section, 1,
                             Len(chunk.section) - Len(HeadingText(first))),
                      SectionSep)

\* Chunks contain at most one heading line; a chunk cut from a section that
\* opens with a heading line begins with that line and its breadcrumb ends
\* with the line's stripped text; any other chunk carries a fallback label.
HeadedChunksOpenWithHeading ==
    ck.done =>
        \A i \in 1..Len(ck.chunks) :
            LET chunk == ck.chunks[i]
                opener == ck.all[SecStart(ck.all, SecOfChunk(ck.all, i))]
            IN /\ Cardinality(HeadingIdx(SplitLines(chunk.content))) <= 1
               /\ StartsWithHash(opener) => OpensWithOwnHeading(chunk)
               /\ ~StartsWithHash(opener) =>
                      chunk.section \in {Introduction, ContentLabel}

\* C19: every chunk chunk_document emits contains at most one heading line;
\* a chunk labeled with a heading breadcrumb begins with the heading line
\* whose stripped text is the last element of the breadcrumb; a chunk labeled
\* by the fallback "Introduction" or "Content" contains no heading line.
C19_HeadingLines ==
    /\ HeadedChunksOpenWithHeading
    /\ ck.done =>
           \A i \in 1..Len(ck.chunks) :
               LET opener == ck.all[SecStart(ck.all, SecOfChunk(ck.all, i))]
               IN ~StartsWithHash(opener) =>
                      HeadingIdx(SplitLines(ck.chunks[i].content)) = {}

\* ------------------------------------------------- heading stack, by document

\* Documents of headings at three levels (two different ones at level 2) and
\* one line of prose
MaxHeads == 5

LineD == <<"#", "#", " ", "D">>
HeadLines == {LineA, LineB, LineC, LineD, ProseX}

HeadDocs ==
    UNION {{Join(ls, <<NL>>) : ls \in [1..n -> HeadLines]} : n \in 1..MaxHeads}

InitHead ==
    /\ StoreIdle
    /\ AuxIdle
    /\ dbFile = "initialized"
    /\ gc = <<>>
    /\ \E content \in HeadDocs : ck = ChunkCall(content)

SpecHead == InitHead /\ [][NextChunk]_vars

\* The heading lines among the first pos lines of a document
HeadingsUpTo(lines, pos) == SelectSeq(SubSeq(lines, 1, pos), StartsWithHash)

\* The sequence starts at level 1 and no heading lies more than one level
\* below the heading before it
WellNested(hs) ==
    /\ hs # <<>>
    /\ HeadingLevel(hs[1]) = 1
    /\ \A i \in 2..Len(hs) : HeadingLevel(hs[i]) <= HeadingLevel(hs[i - 1]) + 1

\* The last heading of level k in the sequence
MostRecent(hs, k) ==
    hs[CHOOSE i \in 1..Len(hs) :
           /\ HeadingLevel(hs[i]) = k
           /\ \A j \in (i + 1)..Len(hs) : HeadingLevel(hs[j]) # k]

\* C17: for heading sequences that start at level 1 and never descend by
\* more than one level at a time, after a heading of level N the heading
\* stack has exactly N entries: the most recent heading of each level 1..N.
C17_StackHoldsAncestors ==
    LET hs == HeadingsUpTo(ck.all, ck.pos)
    IN (ck.pos > 0 /\ StartsWithHash(ck.line) /\ WellNested(hs)) =>
           LET N == HeadingLevel(ck.line)
               stack == ck.st.current_headings
           IN /\ Len(stack) = N
              /\ \A k \in 1..N : stack[k] = HeadingText(MostRecent(hs, k))

\* Headings at levels [1, 2, 3, 2] and then prose: the chunk after the second
\* level-2 heading is labeled "A > D"
C17_Witness ==
    /\ ck.done
    /\ ck.all = <<LineA, LineB, LineC, LineD, ProseX>>
    /\ Len(ck.chunks) = 1
    /\ ck.chunks[1].section = <<"A">> \o SectionSep \o <<"D">>

\* --------------------------------------------- insert_chunk, effect per call

\* The insert_chunk call of connection 1 that is under way ends in this step,
\* returning `ret`: ingest_document counts it and moves to the next chunk or
\* returns its count; a direct call hands the boolean to its caller.
CallReturns(ret) ==
    LET f == frame[1]
        n == IF ret THEN f.inserted + 1 ELSE f.inserted
    IN IF Len(f.todo) > 1
       THEN /\ pc'[1] = "lookup"
            /\ frame'[1].todo = Tail(f.todo)
            /\ frame'[1].inserted = n
       ELSE /\ pc'[1] = "idle"
            /\ result'[1].op = f.op
            /\ result'[1].exc = "none"
            /\ result'[1].ok = ret
            /\ f.op = "ingest" => result'[1].ret = n

\* The tables as connection 1 reads them after the step
MetaAfter == committed'.meta \cup pend'[1].meta
FtsAfter == committed'.fts \cup pend'[1].fts

\* The lookup of a stored hash ends the call with False and writes nothing;
\* the lookup of an absent hash goes on to the INSERTs, writing nothing itself.
LookupEffect ==
    Lookup(1) =>
        LET h == hash_content(Head(frame[1].todo).content)
        IN /\ MetaAfter = View(1).meta
           /\ FtsAfter = View(1).fts
           /\ IF h \in Hashes(View(1).meta)
              THEN CallReturns(FALSE)
              ELSE pc'[1] = "meta" /\ frame' = frame

\* The chunk_meta INSERT, reached only for an absent hash, adds one row under
\* a new id and does not raise.
InsertMetaEffect ==
    InsertMeta(1) =>
        LET h == hash_content(Head(frame[1].todo).content)
        IN /\ h \notin Hashes(View(1).meta)
           /\ pc'[1] = "fts"
           /\ FtsAfter = View(1).fts
           /\ \E r \in MetaAfter :
                  /\ r \notin View(1).meta
                  /\ MetaAfter = View(1).meta \cup {r}
                  /\ r.content_hash = h
                  /\ r.id \notin Ids(View(1).meta)
                  /\ r.id = frame'[1].rowid

\* The chunks_fts INSERT adds one row under the id of the chunk_meta row just
\* written, and the call returns True.
InsertFtsEffect ==
    InsertFts(1) =>
        LET a == Head(frame[1].todo)
            h == hash_content(a.content)
        IN /\ MetaAfter = View(1).meta
           /\ \E x \in FtsAfter :
                  /\ x \notin View(1).fts
                  /\ FtsAfter = View(1).fts \cup {x}
                  /\ x.content = a.content
                  /\ x.rowid \notin RowIds(View(1).fts)
                  /\ \E r \in View(1).meta :
                         r.content_hash = h /\ r.id = x.rowid
           /\ CallReturns(TRUE)

\* An ingest_document run returns in this step (a run that ends in its first
\* step, on a missing file or a document without chunks, included)
IngestReturns ==
    /\ pc'[1] = "idle"
    /\ result'[1].op = "ingest"
    /\ result'[1].exc = "none"
    /\ \/ pc[1] \in {"lookup", "fts"} /\ frame[1].op = "ingest"
       \/ \E path \in Paths, tags \in TagArgs : IngestBegin(1, path, tags)

\* C18: through a single connection, insert_chunk returns True exactly when
\* the content's hash was absent, and then has added exactly one chunk_meta
\* row and one chunks_fts row sharing one id; it returns False exactly when
\* the hash was present, and then leaves both tables as they were.
\* Consequently the value ingest_document returns is the growth in the number
\* of chunk_meta rows over the run (rows and hashes are equal in number, and
\* the run recorded the hashes it started from).
C18_InsertFrameEffect ==
    /\ [](Cardinality(Hashes(View(1).meta)) = Cardinality(View(1).meta))
    /\ [][/\ LookupEffect
          /\ InsertMetaEffect
          /\ InsertFtsEffect
          /\ IngestReturns =>
                 result'[1].ret =
                     Cardinality(MetaAfter)
                         - (IF pc[1] = "idle" THEN Cardinality(View(1).meta)
                            ELSE Cardinality(frame[1].before))]_vars

\* C18 witness: a run over a document of two chunks returned 1: one call
\* returned False for a stored hash, the other True, and the store holds the
\* rows of both chunks with matching ids.
C18_Witness ==
    /\ result[1].op = "ingest"
    /\ result[1].exc = "none"
    /\ result[1].ret = 1
    /\ Len(ChunksOf(result[1].file, result[1].path)) = 2
    /\ Cardinality(View(1).meta) >= 2
    /\ Ids(View(1).meta) = RowIds(View(1).fts)

\* -------------------------------------------------- order of insertion

\* The document of the ingest_document run of connection 1 that is under way
\* or was the last call to return
RunDoc ==
    IF pc[1] # "idle" /\ frame[1].op = "ingest" THEN frame[1].file
    ELSE IF pc[1] = "idle" /\ result[1].op = "ingest" /\ result[1].exc = "none"
    THEN result[1].file
    ELSE NoFile

RunPath == IF pc[1] # "idle" THEN frame[1].path ELSE result[1].path

\* The chunks of a document lie in document order over disjoint line ranges:
\* the i-th chunk is the text of the i-th section long enough to be emitted,
\* and a later chunk starts after the last line of every earlier one.
InDocumentOrder(doc, path) ==
    LET lines == SplitLines(doc.text)
        chunks == ChunksOf(doc, path)
        texts == SecTexts(lines)
        long == {k \in 1..Len(texts) : LongerThanMin(texts[k])}
    IN /\ Len(chunks) = Cardinality(long)
       /\ \A i \in 1..Len(chunks) :
              \E k \in long :
                  /\ Cardinality({j \in long : j <= k}) = i
                  /\ chunks[i].content = texts[k]
       /\ \A k1, k2 \in long :
              k1 < k2 => SecEnd(lines, k1) < SecStart(lines, k2)

\* C16: chunk_document returns its chunks in document order over disjoint
\* line ranges; ingest_document calls insert_chunk on them in that order; so
\* the ids of the rows one ingest_document run inserted increase with the
\* position of their chunks in the document.
C16_IdsFollowDocumentOrder ==
    RunDoc.exists =>
        LET chunks == ChunksOf(RunDoc, RunPath)
            n == Len(chunks)
            first == {i \in 1..n :
                         /\ hash_content(chunks[i].content) \in acked[1]
                         /\ \A j \in 1..(i - 1) :
                                chunks[j].content # chunks[i].content}
        IN /\ (pc[1] = "lookup" /\ Len(frame[1].todo) = n) =>
                  InDocumentOrder(RunDoc, RunPath)
           /\ pc[1] # "idle" =>
                  LET todo == frame[1].todo
                  IN /\ Len(todo) <= n
                     /\ \A k \in 1..Len(todo) :
                            todo[k].content = chunks[n - Len(todo) + k].content
           /\ Cardinality(acked[1]) >= 2 =>
                  \A i, j \in first :
                      i < j =>
                          \A r1, r2 \in View(1).meta :
                              (/\ r1.content_hash = hash_content(chunks[i].content)
                               /\ r2.content_hash = hash_content(chunks[j].content))
                              => r1.id < r2.id

\* C16 witness: a run inserted both chunks of a two-section document into a
\* store that already held a row
C16_Witness ==
    /\ pc[1] = "idle"
    /\ result[1].op = "ingest"
    /\ result[1].exc = "none"
    /\ result[1].ret = 2
    /\ Cardinality(acked[1]) = 2
    /\ acked[1] \subseteq Hashes(View(1).meta)
    /\ Cardinality(View(1).meta) = 3

\* ------------------------------------------------------------------- taskctl

\* Exit statuses bd may end with, and what it may print (stripped by run_bd):
\* nothing, a line without an id, a line with the id "w-9", a hyphen that
\* belongs to no id, two lines with an id on the second, and an id between
\* two words that begin and end with a hyphen
BdCodes == {0, 1, 2}

IssueW9 == <<"w", "-", "9">>

BdOutputs ==
    { <<>>,
      <<"o", "k">>,
      <<"o", "k", " ">> \o IssueW9,
      <<"-", " ", "x">>,
      <<"a", NL>> \o IssueW9,
      <<"-", "x", " ">> \o IssueW9 \o <<" ", "y", "-">> }

\* --tags of create (<<>>: not given), --summary of close (<<>>: not given)
TagsOptions == {<<>>, <<"a", ",", "b">>}
SummaryOptions == {<<>>, <<"s">>}

\* What memory.search(..., limit=1) may return to cmd_close: nothing, an
\* entry without tags, an entry tagged "task, k"
SearchResults ==
    { <<>>,
      << [tags |-> <<>>] >>,
      << [tags |-> <<"t", "a", "s", "k", ",", " ", "k">>] >> }

TagTask == <<"t", "a", "s", "k">>
TagTaskClosed == <<"t", "a", "s", "k", "-", "c", "l", "o", "s", "e", "d">>
TagSnapshot == <<"s", "n", "a", "p", "s", "h", "o", "t">>
CouldNotRetrieve == <<"(", "c", "o", "u", "l", "d", " ", "n", "o", "t", " ",
                      "r", "e", "t", "r", "i", "e", "v", "e", ")">>
NoSummary == <<"N", "o", " ", "s", "u", "m", "m", "a", "r", "y", " ",
               "p", "r", "o", "v", "i", "d", "e", "d">>

\* One entry of the command's trace: a bd run, a memory.search or a
\* memory.add call
BdRun(verb, rc, stdout) ==
    [kind |-> "bd", verb |-> verb, rc |-> rc, stdout |-> stdout,
     tags |-> <<>>, source |-> <<>>, chunk_type |-> "", content |-> <<>>]

MemorySearch(id, results) ==
    [kind |-> "search", verb |-> "", rc |-> 0, stdout |-> <<>>,
     tags |-> <<>>, source |-> id, chunk_type |-> "", content |-> results]

MemoryAdd(content, tags, source, chunk_type) ==
    [kind |-> "add", verb |-> "", rc |-> 0, stdout |-> <<>>,
     tags |-> tags, source |-> source, chunk_type |-> chunk_type,
     content |-> content]

\* No command has run yet (exit -1: the process has not ended)
TaskReady == [cmd |-> "none", trace |-> <<>>, exit |-> -1]

\* if rc != 0: ... sys.exit(1)
BdFailedMut(rc) == rc < 0
BdFailed(rc) == rc # 0

\* re.search(r'(\S+-\S+)', stdout): the hyphens with a non-space character
\* on both sides
InnerHyphens(s) ==
    {i \in 2..(Len(s) - 1) :
        s[i] = "-" /\ ~IsSpace(s[i - 1]) /\ ~IsSpace(s[i + 1])}

\* match.group(1): the whole run of non-space characters around the first
\* such hyphen (<<>>: no match)
IssueId(s) ==
    IF InnerHyphens(s) = {} THEN <<>>
    ELSE LET i == CHOOSE k \in InnerHyphens(s) :
                      \A j \in InnerHyphens(s) : k <= j
             from == CHOOSE a \in 1..i :
                         /\ \A k \in a..i : ~IsSpace(s[k])
                         /\ a > 1 => IsSpace(s[a - 1])
             to == CHOOSE b \in i..Len(s) :
                       /\ \A k \in i..b : ~IsSpace(s[k])
                       /\ b < Len(s) => IsSpace(s[b + 1])
         IN SubSeq(s, from, to)

\* tags = ["task"]; if args.tags: tags.extend(args.tags.split(","))
CreateTags(tagsArg) ==
    IF tagsArg # <<>> THEN <<TagTask>> \o SplitOn(tagsArg, ",") ELSE <<TagTask>>

\* original_tags of cmd_close: "task", "task-closed", then the stripped,
\* non-empty tags of the first search result not yet in the list
RECURSIVE ExtendTags(_, _)
ExtendTags(tags, found) ==
    IF found = <<>> THEN tags
    ELSE LET t == Strip(Head(found))
         IN ExtendTags(IF t # <<>> /\ t \notin Range(tags)
                       THEN Append(tags, t) ELSE tags,
                       Tail(found))

CloseTags(results) ==
    IF results # <<>> /\ results[1].tags # <<>>
    THEN ExtendTags(<<TagTask, TagTaskClosed>>, SplitOn(results[1].tags, ","))
    ELSE <<TagTask, TagTaskClosed>>

\* len([line for line in stdout.splitlines() if line.strip()])
TaskCount(stdout) ==
    Cardinality({i \in 1..Len(SplitLines(stdout)) :
                    Strip(SplitLines(stdout)[i]) # <<>>})

\* taskctl.py create <description> [--tags ...]
CmdCreate(description, tagsArg, rc, stdout) ==
    /\ tk.cmd = "none"
    /\ LET ran == <<BdRun("create", rc, stdout)>>
           issue_id == IssueId(stdout)
           tags == CreateTags(tagsArg)
       IN tk' = IF BdFailed(rc)
                THEN [cmd |-> "create", trace |-> ran, exit |-> 1]
                ELSE IF issue_id = <<>>
                THEN [cmd |-> "create", trace |-> ran, exit |-> 0]
                ELSE [cmd |-> "create",
                      trace |-> Append(ran,
                          MemoryAdd(<<"created", issue_id, description,
                                      Join(tags, <<",", " ">>)>>,
                                    tags, TaskSource \o <<":">> \o issue_id,
                                    "decision")),
                      exit |-> 0]
    /\ UNCHANGED <<storeVars, dbFile, gc, ck, tg>>

\* taskctl.py close <id> [--summary ...]
CmdClose(id, summaryArg, show_rc, show_stdout, rc, results) ==
    /\ tk.cmd = "none"
    /\ LET original_desc == IF show_rc = 0 THEN show_stdout
                            ELSE CouldNotRetrieve
           ran == <<BdRun("show", show_rc, show_stdout), BdRun("close", rc, <<>>)>>
           summary == IF summaryArg # <<>> THEN summaryArg ELSE NoSummary
           tags == CloseTags(results)
       IN tk' = IF BdFailed(rc)
                THEN [cmd |-> "close", trace |-> ran, exit |-> 1]
                ELSE [cmd |-> "close",
                      trace |-> ran \o
                          << MemorySearch(id, results),
                             MemoryAdd(<<"closed", id, summary, original_desc>>,
                                       tags, TaskSource \o <<":">> \o id,
                                       "decision") >>,
                      exit |-> 0]
    /\ UNCHANGED <<storeVars, dbFile, gc, ck, tg>>

\* taskctl.py snapshot
CmdSnapshot(date_str, rc, stdout) ==
    /\ tk.cmd = "none"
    /\ LET ran == <<BdRun("list", rc, stdout)>>
       IN tk' = IF BdFailed(rc)
                THEN [cmd |-> "snapshot", trace |-> ran, exit |-> 1]
                ELSE [cmd |-> "snapshot",
                      trace |-> Append(ran,
                          MemoryAdd(<<"snapshot", date_str,
                                      <<TaskCount(stdout)>>, stdout>>,
                                    <<TagTask, TagSnapshot>>,
                                    TaskSource \o <<"-">> \o TagSnapshot
                                        \o <<":">> \o date_str,
                                    "session")),
                      exit |-> 0]
    /\ UNCHANGED <<storeVars, dbFile, gc, ck, tg>>

Today == <<"d">>

InitTask ==
    /\ StoreIdle
    /\ dbFile = "initialized"
    /\ gc = <<>>
    /\ ck = <<>>
    /\ tg = <<>>
    /\ tk = TaskReady

NextTask ==
    \/ \E tagsArg \in TagsOptions, rc \in BdCodes, stdout \in BdOutputs :
           CmdCreate(<<"d">>, tagsArg, rc, stdout)
    \/ \E summaryArg \in SummaryOptions, show_rc \in BdCodes,
          show_stdout \in BdOutputs, rc \in BdCodes,
          results \in SearchResults :
           CmdClose(IssueW9, summaryArg, show_rc, show_stdout, rc, results)
    \/ \E rc \in BdCodes, stdout \in BdOutputs : CmdSnapshot(Today, rc, stdout)

SpecTask == InitTask /\ [][NextTask]_vars

\* The bd command a taskctl command rests on
MainVerb(cmd) ==
    CASE cmd = "create" -> "create"
      [] cmd = "close" -> "close"
      [] cmd = "snapshot" -> "list"
      [] OTHER -> ""

\* C20: in taskctl a memory entry is written for create, close and snapshot
\* only after the corresponding bd command (bd create, bd close, bd list)
\* exited with status 0; when that bd command fails the command exits with
\* status 1 and makes no memory.add call; and cmd_create writes no entry
\* when bd's output holds no issue id (no hyphen between two non-space
\* characters).
C20_AddOnlyAfterBdSucceeded ==
    LET t == tk.trace
        adds == {i \in 1..Len(t) : t[i].kind = "add"}
        main == {i \in 1..Len(t) :
                    t[i].kind = "bd" /\ t[i].verb = MainVerb(tk.cmd)}
    IN /\ \A i \in adds : \E j \in main : j < i /\ t[j].rc = 0
       /\ (\E j \in main : t[j].rc # 0) => (tk.exit = 1 /\ adds = {})
       /\ tk.cmd = "create" =>
              \A j \in main :
                  (\A k \in 2..(Len(t[j].stdout) - 1) :
                      \/ t[j].stdout[k] # "-"
                      \/ IsSpace(t[j].stdout[k - 1])
                      \/ IsSpace(t[j].stdout[k + 1]))
                  => adds = {}
       /\ Cardinality(adds) <= 1

\* C20 witness: close ran bd show, which failed, then bd close, which
\* succeeded, and then wrote its entry
C20_Witness ==
    /\ tk.cmd = "close"
    /\ tk.exit = 0
    /\ Len(tk.trace) = 4
    /\ tk.trace[1].rc # 0
    /\ tk.trace[2].rc = 0
    /\ tk.trace[4].kind = "add"

====
